---------------------------- MODULE Spec2Model ----------------------------
(***************************************************************************)
(* Model of the Tokopedia client API gateway (src/src/main.rs).            *)
(*                                                                         *)
(* Strings are sequences of symbols.  A symbol is either a single          *)
(* character that the code looks for ("/", ",", ";", "+", " ", "?") or a   *)
(* chunk of characters that contains none of those ("text/html" as a       *)
(* media type, "search" as a path segment, "shopA" as a shop handle).      *)
(* Values read from the upstream JSON are modelled by what the typed       *)
(* accessor (as_str, as_bool, as_u64, as_array) returns: None or Some(v). *)
(***************************************************************************)
EXTENDS Integers, Sequences, FiniteSets, TLC

VARIABLES
    serverUp,   \* the accept loop of main is running
    conn,       \* per connection slot: the task serving it and its request
    probe       \* input and result of one get_value_between evaluation

vars == <<serverUp, conn, probe>>

-----------------------------------------------------------------------------
(* Bounds of the model *)

NumConns == 2        \* connection slots (concurrently served connections)
MaxSegments == 3     \* segments of a request path, empty ones included
MaxHeaderLen == 3    \* symbols of an Accept header value
MaxProducts == 2     \* product entries of a search fixture
MaxComponents == 2   \* components of a lookup fixture
MaxStrLen == 4       \* symbols of the string given to get_value_between
MaxMarkerLen == 2    \* symbols of a marker given to get_value_between

Conns == 1..NumConns

-----------------------------------------------------------------------------
(* Option values: the result of a serde_json accessor *)

None == <<>>
Some(v) == <<v>>
IsSome(o) == Len(o) = 1
Unwrap(o) == o[1]

-----------------------------------------------------------------------------
(* String primitives (std::str) on sequences of symbols *)

\* The sequences over S of length at most n
SeqsUpTo(S, n) == UNION {[1..k -> S] : k \in 0..n}

\* s.starts_with(m) at offset i (1-based): m occurs in s at position i
OccursAt(s, m, i) ==
    /\ i >= 1
    /\ i + Len(m) - 1 <= Len(s)
    /\ \A k \in 1..Len(m) : s[i + k - 1] = m[k]

\* The least position of a set of positions, 0 when there is none
FirstOf(hits) ==
    IF hits = {} THEN 0 ELSE CHOOSE i \in hits : \A j \in hits : i <= j

\* s.find(m): the first position where m occurs, 0 when it does not
Find(s, m) == FirstOf({i \in 1..(Len(s) + 1) : OccursAt(s, m, i)})

\* s cut around the occurrence of m at position i, None when i = 0
SplitAt(s, m, i) ==
    IF i = 0 THEN None
    ELSE Some(<<SubSeq(s, 1, i - 1), SubSeq(s, i + Len(m), Len(s))>>)

\* s.split_once(m): None, or Some(<<before, after>>) around the first m
SplitOnce(s, m) == SplitAt(s, m, Find(s, m))

\* s.split(c) for a one-symbol separator c: the pieces between consecutive
\* occurrences of c, never empty, "" gives <<"">>
Split(s, c) ==
    LET seps == {i \in 1..Len(s) : s[i] = c}
        n == Cardinality(seps)
        Cut(k) == IF k = 0 THEN 0
                  ELSE IF k = n + 1 THEN Len(s) + 1
                  ELSE CHOOSE i \in seps :
                            Cardinality({j \in seps : j <= i}) = k
    IN  [k \in 1..(n + 1) |-> SubSeq(s, Cut(k - 1) + 1, Cut(k) - 1)]

\* s.trim(): leading and trailing spaces removed
RECURSIVE TrimStart(_)
TrimStart(s) ==
    IF s # <<>> /\ s[1] = " " THEN TrimStart(Tail(s)) ELSE s

RECURSIVE TrimEnd(_)
TrimEnd(s) ==
    IF s # <<>> /\ s[Len(s)] = " " THEN TrimEnd(SubSeq(s, 1, Len(s) - 1)) ELSE s

Trim(s) == TrimEnd(TrimStart(s))

\* s.replace(m, ""): every non-overlapping occurrence of m removed, m # "";
\* RemoveAt is given the position i of the first occurrence
RECURSIVE Remove(_, _)
RemoveAt(s, m, i) ==
    IF i = 0 \/ m = <<>> THEN s
    ELSE SubSeq(s, 1, i - 1) \o Remove(SubSeq(s, i + Len(m), Len(s)), m)

Remove(s, m) == RemoveAt(s, m, Find(s, m))

\* value.contains(v) on a slice
Contains(value, v) == \E k \in 1..Len(value) : value[k] = v

\* iter.filter(|v| value.contains(v)).collect(): the order of s is kept
FilterIn(s, value) == SelectSeq(s, LAMBDA v : Contains(value, v))

-----------------------------------------------------------------------------
(* QuickParser::get_value_between *)

Ok(v) == [ok |-> TRUE, val |-> v]
Err == [ok |-> FALSE, val |-> <<>>]

\* Option::unwrap_or
unwrap_or(o, default) == IF IsSome(o) THEN Unwrap(o) ELSE default

\* self.split_once(val1).unwrap_or(("", "")).1
\*     .split_once(val2).unwrap_or(("", "")).0
\* the part after the first val1, and of that the part before the first val2
between(s, val1, val2) ==
    unwrap_or(SplitOnce(unwrap_or(SplitOnce(s, val1), <<<<>>, <<>>>>)[2], val2),
              <<<<>>, <<>>>>)[1]

\* if result.len() <= 0 { bail!("") } Ok(result)
checked(result) == IF Len(result) <= 0 THEN Err ELSE Ok(result)

\* As get_value_between, without the check of the length of the result
get_value_between_unchecked(s, val1, val2) == Ok(between(s, val1, val2))

\* A missing marker gives "" (unwrap_or), and "" gives Err
get_value_between(s, val1, val2) == checked(between(s, val1, val2))

-----------------------------------------------------------------------------
(* Accept header: HeaderValue as a sequence of symbols *)

HTML == <<"text/html">>
JSON == <<"application/json">>

\* HeaderValue::to_str fails on a byte that is not visible ASCII
NonAscii == "\\xFF"
to_str(h) == IF \E k \in 1..Len(h) : h[k] = NonAscii THEN Err ELSE Ok(h)

\* v.split(c).collect().get(0).unwrap(): what precedes the first c
FirstPiece(s, c) == Split(s, c)[1]

\* Accept::to_vec: split on ",", trim each, keep what precedes ";", then "+"
to_vec(h) ==
    LET str == to_str(h)
        parts == Split(str.val, ",")
    IN  IF ~str.ok THEN Err
        ELSE Ok([k \in 1..Len(parts) |->
                    FirstPiece(FirstPiece(Trim(parts[k]), ";"), "+")])

\* Accept::priority: the first token of to_vec that value contains, else ""
priority(h, value) ==
    LET vec == to_vec(h)
        kept == FilterIn(vec.val, value)
    IN  IF ~vec.ok THEN Err
        ELSE Ok(IF kept = <<>> THEN <<>> ELSE kept[1])

\* The slice both negotiated endpoints pass to priority
Supported == <<HTML, JSON>>

-----------------------------------------------------------------------------
(* Responses and the outcome of one call of service *)

APP_NAME == "Tokopedia Client API"
build_id == "<build id>"
app_desc == <<APP_NAME, " (build ", build_id, ")">>

NoHeader == "<no Content-Type>"

\* respond_text!: the body is the trimmed text
respond_text(s) == [kind |-> "text", text |-> Trim(s)]
\* load_template!(name, substitutions) given to respond_text!
respond_html(name, subst) == [kind |-> "html", template |-> name, subst |-> subst]
\* json!(object).to_string() given to respond_text!
respond_json(obj) == [kind |-> "json", obj |-> obj]

NoBody == [kind |-> "none"]

\* Ok(Response): hyper writes the response, the connection stays open
Responded(status, ctype, body) ==
    [kind |-> "response", status |-> status, ctype |-> ctype, body |-> body,
     cause |-> ""]
\* Err(e) from service (the ? operator): serve_connection ends with the
\* error, main prints it, nothing is written to the client
Failed(cause) ==
    [kind |-> "error", status |-> 0, ctype |-> NoHeader, body |-> NoBody,
     cause |-> cause]
\* unwrap() on None: the task serving the connection panics
Panicked(cause) ==
    [kind |-> "panic", status |-> 0, ctype |-> NoHeader, body |-> NoBody,
     cause |-> cause]
NoOutcome ==
    [kind |-> "none", status |-> 0, ctype |-> NoHeader, body |-> NoBody,
     cause |-> ""]

-----------------------------------------------------------------------------
(* service: the part that runs before the upstream call *)

\* req.uri().path().split("/").filter(|v| v.len() > 0).collect()
NonEmpty(segs) == SelectSeq(segs, LAMBDA v : Len(v) > 0)

splitted_path(path) == NonEmpty(Split(path, "/"))

\* As Handler, with "search" matched on any path of two or more segments
Handler_any_length(req) ==
    LET sp == splitted_path(req.path)
    IN  IF req.method = "HEAD" THEN "head"
        ELSE IF req.method = "GET" /\ req.path = <<"/">> THEN "info"
        ELSE IF Len(sp) >= 2 /\ req.method = "GET" /\ sp[1] = <<"search">>
            THEN "search"
        ELSE IF Len(sp) >= 2
                /\ req.method = "GET" /\ Len(sp) = 3 /\ sp[1] = <<"lookup">>
            THEN "lookup"
        ELSE "notfound"

\* As Handler, with HEAD dispatched like GET instead of answered first
Handler_head_routed(req) ==
    LET sp == splitted_path(req.path)
    IN  IF req.method \in {"GET", "HEAD"} /\ req.path = <<"/">> THEN "info"
        ELSE IF Len(sp) >= 2 /\ req.method \in {"GET", "HEAD"}
                /\ Len(sp) = 2 /\ sp[1] = <<"search">>
            THEN "search"
        ELSE IF Len(sp) >= 2 /\ req.method \in {"GET", "HEAD"}
                /\ Len(sp) = 3 /\ sp[1] = <<"lookup">>
            THEN "lookup"
        ELSE "notfound"

\* The branch of service a request takes
Handler(req) ==
    LET sp == splitted_path(req.path)
    IN  IF req.method = "HEAD" THEN "head"
        ELSE IF req.method = "GET" /\ req.path = <<"/">> THEN "info"
        ELSE IF Len(sp) >= 1 /\ Len(sp) >= 2
                /\ req.method = "GET" /\ Len(sp) = 2 /\ sp[1] = <<"search">>
            THEN "search"
        ELSE IF Len(sp) >= 1 /\ Len(sp) >= 2
                /\ req.method = "GET" /\ Len(sp) = 3 /\ sp[1] = <<"lookup">>
            THEN "lookup"
        ELSE "notfound"

\* GET "/": negotiated over Supported, plain text by default
Info(accept) ==
    LET p == priority(Unwrap(accept), Supported)
    IN  IF IsSome(accept) /\ ~p.ok THEN Failed("ToStrError")
        ELSE IF IsSome(accept) /\ p.val = HTML
            THEN Responded(200, "text/html",
                    respond_html("version.html",
                        <<<<"$title", APP_NAME>>, <<"$build", build_id>>>>))
        ELSE IF IsSome(accept) /\ p.val = JSON
            THEN Responded(200, "application/json",
                    respond_json([name |-> APP_NAME, build |-> build_id,
                                  success |-> TRUE]))
        ELSE Responded(200, NoHeader, respond_text(app_desc))

\* The end of service: negotiated over Supported, always status 404
NotFound(accept) ==
    LET p == priority(Unwrap(accept), Supported)
    IN  IF IsSome(accept) /\ ~p.ok THEN Failed("ToStrError")
        ELSE IF IsSome(accept) /\ p.val = HTML
            THEN Responded(404, "text/html",
                    respond_html("404.html", <<<<"$title", APP_NAME>>>>))
        ELSE IF IsSome(accept) /\ p.val = JSON
            THEN Responded(404, "application/json",
                    respond_json([reason |-> "404 Not found",
                                  success |-> FALSE]))
        ELSE Responded(404, NoHeader, respond_text(<<"404 Not found">>))

\* The upstream call a data handler issues
UpstreamCall(req) ==
    LET sp == splitted_path(req.path)
    IN  IF Handler(req) = "search"
        THEN [operationName |-> "SearchProductQueryV4", variables |-> <<sp[2]>>]
        ELSE [operationName |-> "PDPGetLayoutQuery", variables |-> <<sp[2], sp[3]>>]

\* What service does up to its return or its first await: the outcome when
\* it returns, the steps taken, the upstream call when it issues one
Ran(out, steps, call) == [out |-> out, steps |-> steps, call |-> call]

service_begin(req) ==
    LET h == Handler(req)
        negotiate == IF IsSome(req.accept) THEN <<"negotiate">> ELSE <<>>
    IN  IF h = "head"
            THEN Ran(Responded(200, NoHeader, respond_text(<<>>)), <<>>, None)
        ELSE IF h = "info"
            THEN Ran(Info(req.accept), <<"dispatch">> \o negotiate, None)
        ELSE IF h = "notfound"
            THEN Ran(NotFound(req.accept),
                     <<"dispatch", "split">> \o negotiate, None)
        ELSE Ran(NoOutcome, <<"dispatch", "split", "upstream">>,
                 Some(UpstreamCall(req)))

-----------------------------------------------------------------------------
(* Search: the part of service that runs after the upstream call *)

\* One entry of data.products, by what each accessor returns
Product(shopName, shopUrl, name, url) ==
    [shopName |-> shopName, shopUrl |-> shopUrl, shopCity |-> Some("Jakarta"),
     isOfficial |-> Some(TRUE), isPowerBadge |-> Some(FALSE),
     name |-> name, url |-> url, price |-> Some("Rp10.000"),
     imageUrl |-> Some("img"), categoryName |-> Some("Shoes")]

StorePrefix == <<"https:", "/", "/", "www.tokopedia.com", "/">>

\* Every as_str()/as_bool() of the loop body returns Some
ProductFieldsPresent(p) ==
    /\ IsSome(p.shopName) /\ IsSome(p.shopUrl) /\ IsSome(p.shopCity)
    /\ IsSome(p.isOfficial) /\ IsSome(p.isPowerBadge)
    /\ IsSome(p.name) /\ IsSome(p.url) /\ IsSome(p.price)
    /\ IsSome(p.imageUrl) /\ IsSome(p.categoryName)

shop_username(p) == Remove(Unwrap(p.shopUrl), StorePrefix)

product_id(p) ==
    get_value_between(Unwrap(p.url), shop_username(p) \o <<"/">>, <<"?">>)

\* The record pushed to result_products for one product
ResultProduct(p) ==
    [seller |-> [name |-> Unwrap(p.shopName), id |-> shop_username(p),
                 url |-> Unwrap(p.shopUrl), city |-> Unwrap(p.shopCity),
                 isOfficial |-> Unwrap(p.isOfficial),
                 hasPowerBadge |-> Unwrap(p.isPowerBadge)],
     name |-> Unwrap(p.name), url |-> Unwrap(p.url),
     price |-> Unwrap(p.price), thumbnail |-> Unwrap(p.imageUrl),
     category |-> Unwrap(p.categoryName), id |-> product_id(p).val]

\* As result_products, with a product whose id extraction fails skipped
result_products_skip(products) ==
    LET kept == SelectSeq(products,
                    LAMBDA p : ProductFieldsPresent(p) /\ product_id(p).ok)
    IN  IF \E k \in 1..Len(products) : ~ProductFieldsPresent(products[k])
        THEN [kind |-> "panic", results |-> <<>>]
        ELSE [kind |-> "ok",
              results |-> [k \in 1..Len(kept) |-> ResultProduct(kept[k])]]

\* for product in products: the loop stops at the first product with an
\* unwrap on None (panic) or a failed id extraction (?); when there is none
\* it has pushed one record per product, in the order of products
result_products(products) ==
    LET stops == {k \in 1..Len(products) :
                    \/ ~ProductFieldsPresent(products[k])
                    \/ ~product_id(products[k]).ok}
        first == CHOOSE k \in stops : \A l \in stops : k <= l
    IN  IF stops = {}
        THEN [kind |-> "ok",
              results |-> [k \in 1..Len(products) |->
                                ResultProduct(products[k])]]
        ELSE [kind |-> IF ProductFieldsPresent(products[first])
                       THEN "error" ELSE "panic",
              results |-> <<>>]

\* What Search returns once the loop over the products has ended
search_response(doc, loop) ==
    IF loop.kind = "panic"
        THEN Ran(Panicked("unwrap on None"), <<"parse", "transform">>, None)
    ELSE IF loop.kind = "error"
        THEN Ran(Failed("get_value_between"), <<"parse", "transform">>, None)
    ELSE Ran(Responded(200, "application/json",
                respond_json([success |-> TRUE,
                              keyword |-> Unwrap(doc.currentKeyword),
                              suggestion |-> Unwrap(doc.suggestion),
                              results |-> loop.results])),
             <<"parse", "transform">>, None)

\* Search after serde_json::from_str: the three unwraps, then the loop
search_transform(doc) ==
    IF ~IsSome(doc.currentKeyword) \/ ~IsSome(doc.suggestion)
            \/ ~IsSome(doc.products)
        THEN Ran(Panicked("unwrap on None"), <<"parse", "transform">>, None)
    ELSE search_response(doc, result_products(Unwrap(doc.products)))

\* reply: transport "ok"/"err", valid (the text parses as JSON), doc
Search(reply) ==
    IF reply.transport # "ok"
        THEN Ran(Failed("reqwest::Error"), <<>>, None)
    ELSE IF ~reply.valid
        THEN Ran(Failed("serde_json::Error"), <<"parse">>, None)
    ELSE search_transform(reply.doc)

-----------------------------------------------------------------------------
(* Lookup: the part of service that runs after the upstream call *)

DigitChars == <<"0", "1", "2", "3", "4", "5", "6", "7", "8", "9">>
IsDigit(c) == \E n \in 1..10 : DigitChars[n] = c
DigitVal(c) == (CHOOSE n \in 1..10 : DigitChars[n] = c) - 1

RECURSIVE DigitsValue(_, _)
DigitsValue(s, acc) ==
    IF s = <<>> THEN acc ELSE DigitsValue(Tail(s), 10 * acc + DigitVal(s[1]))

\* str::parse::<usize>: an optional "+", then one or more digits
parse_usize(s) ==
    LET digits == IF s # <<>> /\ s[1] = "+" THEN Tail(s) ELSE s
    IN  IF digits = <<>> \/ \E k \in 1..Len(digits) : ~IsDigit(digits[k])
        THEN Err
        ELSE Ok(DigitsValue(digits, 0))

\* The four mutable locals of the scan, and whether an unwrap panicked
ScanStart ==
    [title |-> "", description |-> "", price |-> 0, stock |-> <<"0">>,
     panic |-> FALSE]

\* for content in contents: the "Deskripsi" entry sets description
RECURSIVE scan_contents(_, _)
scan_contents(contents, st) ==
    IF contents = <<>> THEN st
    ELSE IF ~IsSome(contents[1].title) THEN [st EXCEPT !.panic = TRUE]
    ELSE IF Unwrap(contents[1].title) = "Deskripsi"
        THEN IF ~IsSome(contents[1].subtitle) THEN [st EXCEPT !.panic = TRUE]
             ELSE scan_contents(Tail(contents),
                    [st EXCEPT !.description = Unwrap(contents[1].subtitle)])
    ELSE scan_contents(Tail(contents), st)

\* The body of for component in components
scan_component(c, st) ==
    IF ~IsSome(c.name) THEN [st EXCEPT !.panic = TRUE]
    ELSE IF Unwrap(c.name) = "product_content"
        THEN IF ~IsSome(c.dname) \/ ~IsSome(c.dprice) \/ ~IsSome(c.dstock)
             THEN [st EXCEPT !.panic = TRUE]
             ELSE [st EXCEPT !.title = Unwrap(c.dname),
                             !.price = Unwrap(c.dprice),
                             !.stock = Unwrap(c.dstock)]
    ELSE IF Unwrap(c.name) = "product_detail"
        THEN IF ~IsSome(c.dcontent) THEN [st EXCEPT !.panic = TRUE]
             ELSE scan_contents(Unwrap(c.dcontent), st)
    ELSE st

RECURSIVE scan_components(_, _)
scan_components(components, st) ==
    IF components = <<>> \/ st.panic THEN st
    ELSE scan_components(Tail(components), scan_component(components[1], st))

\* The end of Lookup: the parse of the stock and the response
lookup_response(doc, st, stock) ==
    IF ~stock.ok
        THEN Ran(Failed("ParseIntError"),
                 <<"sentinel", "parse", "transform">>, None)
    ELSE Ran(Responded(200, "application/json",
                respond_json([success |-> TRUE, title |-> st.title,
                              description |-> st.description,
                              price |-> st.price, stock |-> stock.val,
                              storeName |-> Unwrap(doc.shopName),
                              originalUrl |-> Unwrap(doc.url),
                              createdAt |-> Unwrap(doc.createdAt)])),
             <<"sentinel", "parse", "transform">>, None)

\* Lookup once the components are scanned (st): an unwrap of the scan on
\* None panics, else the stock is parsed
lookup_scanned(doc, st) ==
    IF st.panic
        THEN Ran(Panicked("unwrap on None"),
                 <<"sentinel", "parse", "transform">>, None)
    ELSE lookup_response(doc, st, parse_usize(st.stock))

\* Lookup after serde_json::from_str: the unwrap of components, the reads
\* of basicInfo, then the scan of the components
lookup_transform(doc) ==
    IF ~IsSome(doc.components)
        THEN Ran(Panicked("unwrap on None"),
                 <<"sentinel", "parse", "transform">>, None)
    ELSE IF ~IsSome(doc.shopName) \/ ~IsSome(doc.url)
            \/ ~IsSome(doc.createdAt)
        THEN Ran(Panicked("unwrap on None"),
                 <<"sentinel", "parse", "transform">>, None)
    ELSE lookup_scanned(doc,
            scan_components(Unwrap(doc.components), ScanStart))

\* As Lookup, with the text parsed as JSON before the sentinel is looked for
Lookup_parse_first(reply) ==
    IF reply.transport # "ok" THEN Ran(Failed("reqwest::Error"), <<>>, None)
    ELSE IF ~reply.valid
        THEN Ran(Failed("serde_json::Error"), <<"parse">>, None)
    ELSE IF reply.sentinel
        THEN Ran(Responded(200, "application/json",
                    respond_json([reason |-> "Product not found",
                                  success |-> FALSE])),
                 <<"parse", "sentinel">>, None)
    ELSE lookup_transform(reply.doc)

\* reply: transport, sentinel (the text contains "product: not found"),
\* valid (the text parses as JSON), doc
Lookup(reply) ==
    IF reply.transport # "ok" THEN Ran(Failed("reqwest::Error"), <<>>, None)
    ELSE IF reply.sentinel
        THEN Ran(Responded(200, "application/json",
                    respond_json([reason |-> "Product not found",
                                  success |-> FALSE])),
                 <<"sentinel">>, None)
    ELSE IF ~reply.valid
        THEN Ran(Failed("serde_json::Error"), <<"sentinel", "parse">>, None)
    ELSE lookup_transform(reply.doc)

\* As service_resume, with the Accept header decoded on the data endpoints
service_resume_negotiated(req, reply) ==
    IF IsSome(req.accept) /\ ~to_str(Unwrap(req.accept)).ok
    THEN Ran(Failed("ToStrError"), <<"negotiate">>, None)
    ELSE IF Handler(req) = "search" THEN Search(reply) ELSE Lookup(reply)

\* As service_resume, with the upstream call issued again when it failed
service_resume_retry(req, reply) ==
    IF reply.transport # "ok"
    THEN Ran(NoOutcome, <<"upstream">>, Some(UpstreamCall(req)))
    ELSE IF Handler(req) = "search" THEN Search(reply) ELSE Lookup(reply)

\* What service does after the await of the upstream call
service_resume(req, reply) ==
    IF Handler(req) = "search" THEN Search(reply) ELSE Lookup(reply)

-----------------------------------------------------------------------------
(* Inputs: requests *)

Methods == {"GET", "HEAD", "POST"}

\* A path is "/" followed by segments joined by "/"; a segment is empty
\* ("//"), one word, or two words written together ("searchx")
Segments == {<<>>, <<"search">>, <<"lookup">>, <<"x">>, <<"search", "x">>}

RECURSIVE JoinSegments(_)
JoinSegments(segs) ==
    IF segs = <<>> THEN <<>>
    ELSE IF Len(segs) = 1 THEN segs[1]
    ELSE segs[1] \o <<"/">> \o JoinSegments(Tail(segs))

Paths == {<<"/">> \o JoinSegments(segs) : segs \in SeqsUpTo(Segments, MaxSegments)}

HeaderSymbols ==
    {"text/html", "application/json", "Application/JSON", "x",
     ",", ";", "+", " ", NonAscii}
Headers == SeqsUpTo(HeaderSymbols, MaxHeaderLen)

Request(method, path, accept) ==
    [method |-> method, path |-> path, accept |-> accept]

\* Every method on every path, every Accept header on the two negotiated
\* endpoints, and a few Accept headers on the two data endpoints
RouteRequests == {Request(m, p, None) : m \in Methods, p \in Paths}
NegotiatedRequests ==
    {Request("GET", p, Some(h)) : p \in {<<"/">>, <<"/", "x">>}, h \in Headers}
DataRequests ==
    {Request("GET", p, a) :
        p \in {<<"/", "search", "/", "x">>, <<"/", "lookup", "/", "x", "/", "x">>},
        a \in {Some(HTML), Some(JSON), Some(<<"x">>)}}
Requests == RouteRequests \cup NegotiatedRequests \cup DataRequests

NoRequest == Request("", <<>>, None)

-----------------------------------------------------------------------------
(* Inputs: what the upstream call returns *)

NoDoc == [none |-> TRUE]
TransportError ==
    [transport |-> "err", sentinel |-> FALSE, valid |-> FALSE, doc |-> NoDoc]
NotJson(sentinel) ==
    [transport |-> "ok", sentinel |-> sentinel, valid |-> FALSE, doc |-> NoDoc]
Json(sentinel, doc) ==
    [transport |-> "ok", sentinel |-> sentinel, valid |-> TRUE, doc |-> doc]
NoReply == [transport |-> "", sentinel |-> FALSE, valid |-> FALSE, doc |-> NoDoc]

ShopA == StorePrefix \o <<"shopA">>
ShopB == StorePrefix \o <<"shopB">>
ProductA ==
    Product(Some("Shop A"), Some(ShopA), Some("Shoe 1"),
            Some(ShopA \o <<"/", "111", "?", "extra=1">>))
ProductB ==
    Product(Some("Shop B"), Some(ShopB), Some("Shoe 2"),
            Some(ShopB \o <<"/", "222", "?", "x=2">>))
\* no "?" in the product URL
ProductNoQuery ==
    Product(Some("Shop A"), Some(ShopA), Some("Shoe 3"),
            Some(ShopA \o <<"/", "333">>))
\* nothing between the markers
ProductEmptyId ==
    Product(Some("Shop A"), Some(ShopA), Some("Shoe 4"),
            Some(ShopA \o <<"/", "?", "x=2">>))
\* the product URL does not hold "<seller id>/"
ProductOtherShop ==
    Product(Some("Shop A"), Some(ShopA), Some("Shoe 5"),
            Some(ShopB \o <<"/", "555", "?", "x=2">>))
\* "name" is absent or not a string
ProductNoName ==
    Product(Some("Shop A"), Some(ShopA), None,
            Some(ShopA \o <<"/", "666", "?", "x=2">>))

ProductFixtures ==
    {ProductA, ProductB, ProductNoQuery, ProductEmptyId, ProductOtherShop,
     ProductNoName}

SearchDoc(keyword, products) ==
    [currentKeyword |-> keyword, suggestion |-> Some(""), products |-> products]

SearchReplies ==
    {TransportError, NotJson(FALSE)}
    \cup {Json(FALSE, SearchDoc(None, Some(<<ProductA>>))),
          Json(FALSE, SearchDoc(Some("shoes"), None))}
    \cup {Json(FALSE, SearchDoc(Some("shoes"), Some(ps))) :
            ps \in SeqsUpTo(ProductFixtures, MaxProducts)}

Component(name, dname, dprice, dstock, dcontent) ==
    [name |-> name, dname |-> dname, dprice |-> dprice, dstock |-> dstock,
     dcontent |-> dcontent]
Content(title, subtitle) == [title |-> title, subtitle |-> subtitle]

ContentGood ==
    Component(Some("product_content"), Some("Sepatu"), Some(5), Some(<<"7">>), None)
ContentOther ==
    Component(Some("product_content"), Some("Sandal"), Some(9),
              Some(<<"+", "1", "2">>), None)
ContentMany ==
    Component(Some("product_content"), Some("Sepatu"), Some(5), Some(<<"many">>),
              None)
ContentNoStock ==
    Component(Some("product_content"), Some("Sepatu"), Some(5), None, None)
DetailDeskripsi ==
    Component(Some("product_detail"), None, None, None,
              Some(<<Content(Some("Kondisi"), Some("Baru")),
                     Content(Some("Deskripsi"), Some("Sepatu lari"))>>))
DetailOther ==
    Component(Some("product_detail"), None, None, None,
              Some(<<Content(Some("Kondisi"), Some("Baru"))>>))
DetailNoSubtitle ==
    Component(Some("product_detail"), None, None, None,
              Some(<<Content(Some("Deskripsi"), None)>>))
Media ==
    Component(Some("product_media"), Some("ignored"), Some(1), Some(<<"x">>),
              Some(<<Content(Some("Deskripsi"), Some("ignored"))>>))
Unnamed == Component(None, None, None, None, None)

ComponentFixtures ==
    {ContentGood, ContentOther, ContentMany, ContentNoStock, DetailDeskripsi,
     DetailOther, DetailNoSubtitle, Media, Unnamed}

LookupDoc(shopName, components) ==
    [shopName |-> shopName, url |-> Some("https://www.tokopedia.com/s/p"),
     createdAt |-> Some("2023-01-01"), components |-> components]

LookupReplies ==
    {TransportError, NotJson(FALSE), NotJson(TRUE)}
    \cup {Json(TRUE, LookupDoc(Some("Shop A"), Some(<<ContentGood>>))),
          Json(FALSE, LookupDoc(Some("Shop A"), None))}
    \cup {Json(FALSE, LookupDoc(None, Some(cs))) :
            cs \in SeqsUpTo(ComponentFixtures, 1)}
    \cup {Json(FALSE, LookupDoc(Some("Shop A"), Some(cs))) :
            cs \in SeqsUpTo(ComponentFixtures, MaxComponents)}

-----------------------------------------------------------------------------
(* The server: main's accept loop and one task per connection *)

\* A connection slot: pc is "none" (no connection), "idle" (the task waits
\* for a request), "recv" (a request is parsed, service not yet polled),
\* "await" (service is suspended in send().await / text().await), "ready"
\* (the upstream call has returned), "sent" (service returned a response),
\* "closed" (the task has ended: service returned an error or panicked)
Task(pc, req, reply, calls, steps, out) ==
    [pc |-> pc, req |-> req, reply |-> reply, calls |-> calls, steps |-> steps,
     out |-> out]

NoTask == Task("none", NoRequest, NoReply, <<>>, <<>>, NoOutcome)
NoProbe == [s |-> <<>>, val1 |-> <<>>, val2 |-> <<>>, result |-> Err, done |-> FALSE]

Init ==
    /\ serverUp = TRUE
    /\ conn = [i \in Conns |-> NoTask]
    /\ probe = NoProbe

\* listener.accept() returns a stream; a task is spawned to serve it
Accept(i) ==
    /\ serverUp
    /\ conn[i].pc \in {"none", "closed"}
    /\ conn' = [conn EXCEPT ![i] = [NoTask EXCEPT !.pc = "idle"]]
    /\ UNCHANGED <<serverUp, probe>>

\* listener.accept() returns an error: main returns, the runtime is dropped
\* and with it every task
AcceptError ==
    /\ serverUp
    /\ serverUp' = FALSE
    /\ UNCHANGED <<conn, probe>>

\* hyper parses the next request of the connection
Receive(i, R) ==
    /\ serverUp
    /\ conn[i].pc = "idle"
    /\ \E r \in R :
         conn' = [conn EXCEPT ![i] =
                    Task("recv", r, NoReply, <<>>, <<>>, NoOutcome)]
    /\ UNCHANGED <<serverUp, probe>>

\* Where the task is after service returned out
After(out) == IF out.kind = "response" THEN "sent" ELSE "closed"

\* The task once service has run: suspended at the upstream call it issued,
\* or ended with its outcome
Continue(task, ran) ==
    IF IsSome(ran.call)
    THEN [task EXCEPT !.pc = "await",
                      !.calls = Append(@, Unwrap(ran.call)),
                      !.steps = @ \o ran.steps]
    ELSE [task EXCEPT !.pc = After(ran.out), !.steps = @ \o ran.steps,
                      !.out = ran.out]

\* service runs up to its return or to the await of the upstream call
Begin(i) ==
    /\ serverUp
    /\ conn[i].pc = "recv"
    /\ conn' = [conn EXCEPT ![i] = Continue(@, service_begin(conn[i].req))]
    /\ UNCHANGED <<serverUp, probe>>

\* The upstream call returns: an error, or the text of the response
UpstreamReturns(i, SR, LR) ==
    /\ serverUp
    /\ conn[i].pc = "await"
    /\ \E reply \in (IF Handler(conn[i].req) = "search" THEN SR ELSE LR) :
         conn' = [conn EXCEPT ![i] = [@ EXCEPT !.pc = "ready", !.reply = reply]]
    /\ UNCHANGED <<serverUp, probe>>

\* As Resume, with a panic ending the process instead of the one task
Resume_abort(i) ==
    /\ serverUp
    /\ conn[i].pc = "ready"
    /\ LET ran == service_resume(conn[i].req, conn[i].reply)
       IN  conn' = [j \in Conns |->
                IF j = i
                THEN [conn[j] EXCEPT !.pc = After(ran.out),
                                     !.steps = @ \o ran.steps, !.out = ran.out]
                ELSE IF ran.out.kind = "panic" /\ conn[j].pc # "none"
                THEN [conn[j] EXCEPT !.pc = "closed"]
                ELSE conn[j]]
    /\ UNCHANGED <<serverUp, probe>>

\* service is polled again and runs to its return (or to its next await)
Resume(i) ==
    /\ serverUp
    /\ conn[i].pc = "ready"
    /\ conn' = [conn EXCEPT ![i] =
                Continue(@, service_resume(conn[i].req, conn[i].reply))]
    /\ UNCHANGED <<serverUp, probe>>

\* The response is written; the connection is kept alive for the next request
KeepAlive(i) ==
    /\ serverUp
    /\ conn[i].pc = "sent"
    /\ conn' = [conn EXCEPT ![i] = [NoTask EXCEPT !.pc = "idle"]]
    /\ UNCHANGED <<serverUp, probe>>

\* One connection served, every request and every upstream response
Next ==
    \/ Accept(1)
    \/ AcceptError
    \/ Receive(1, Requests)
    \/ Begin(1)
    \/ UpstreamReturns(1, SearchReplies, LookupReplies)
    \/ Resume(1)
    \/ KeepAlive(1)

Spec == Init /\ [][Next]_vars

-----------------------------------------------------------------------------
(* Several connections served concurrently, a few requests and responses *)

ConcRequests ==
    {Request("HEAD", <<"/">>, None),
     Request("GET", <<"/">>, Some(JSON)),
     Request("GET", <<"/", "x">>, Some(<<NonAscii>>)),
     Request("GET", <<"/", "search", "/", "x">>, None),
     Request("GET", <<"/", "lookup", "/", "x", "/", "x">>, None)}

ConcSearchReplies ==
    {TransportError,
     Json(FALSE, SearchDoc(Some("shoes"), Some(<<ProductA, ProductB>>))),
     Json(FALSE, SearchDoc(Some("shoes"), Some(<<ProductNoName>>))),
     Json(FALSE, SearchDoc(Some("shoes"), Some(<<ProductNoQuery>>)))}

ConcLookupReplies ==
    {NotJson(TRUE),
     Json(FALSE, LookupDoc(None, Some(<<>>))),
     Json(FALSE, LookupDoc(Some("Shop A"), Some(<<ContentMany>>))),
     Json(FALSE, LookupDoc(Some("Shop A"), Some(<<ContentGood, DetailDeskripsi>>)))}

NextConc ==
    \/ AcceptError
    \/ \E i \in Conns :
        \/ Accept(i)
        \/ Receive(i, ConcRequests)
        \/ Begin(i)
        \/ UpstreamReturns(i, ConcSearchReplies, ConcLookupReplies)
        \/ Resume(i)
        \/ KeepAlive(i)

\* The runtime polls every task that can run: weak fairness of Begin(i) and
\* of Resume(i), that is WF_vars(Begin(i)) /\ WF_vars(Resume(i)) with
\* ENABLED <<Begin(i)>>_vars written as CanBegin(i) and
\* ENABLED <<Resume(i)>>_vars as CanResume(i): each step is possible exactly
\* when its guard holds and always changes pc. Nothing makes the upstream
\* answer, and nothing makes a client send a request.
CanBegin(i) == serverUp /\ conn[i].pc = "recv"
CanResume(i) == serverUp /\ conn[i].pc = "ready"
Fairness ==
    \A i \in Conns :
        /\ ([]<>(~CanBegin(i))) \/ ([]<><<Begin(i)>>_vars)
        /\ ([]<>(~CanResume(i))) \/ ([]<><<Resume(i)>>_vars)

SpecConc == Init /\ [][NextConc]_vars /\ Fairness

-----------------------------------------------------------------------------
(* Several connections, the data endpoints under every kind of Accept header *)

AcceptRequests ==
    {Request("GET", p, a) :
        p \in {<<"/", "search", "/", "x">>, <<"/", "lookup", "/", "x", "/", "x">>},
        a \in {None, Some(HTML), Some(JSON), Some(<<NonAscii>>)}}

AcceptSearchReplies ==
    {Json(FALSE, SearchDoc(Some("shoes"), Some(<<ProductA, ProductB>>))),
     Json(FALSE, SearchDoc(Some("shoes"), Some(<<ProductNoQuery>>)))}

AcceptLookupReplies ==
    {NotJson(TRUE),
     Json(FALSE, LookupDoc(Some("Shop A"), Some(<<ContentGood, DetailDeskripsi>>)))}

NextAccept ==
    \/ AcceptError
    \/ \E i \in Conns :
        \/ Accept(i)
        \/ Receive(i, AcceptRequests)
        \/ Begin(i)
        \/ UpstreamReturns(i, AcceptSearchReplies, AcceptLookupReplies)
        \/ Resume(i)
        \/ KeepAlive(i)

SpecAccept == Init /\ [][NextAccept]_vars

-----------------------------------------------------------------------------
(* get_value_between on every short string and pair of markers *)

ProbeSymbols == {"a", "/", "?"}

Probe ==
    /\ ~probe.done
    /\ \E s \in SeqsUpTo(ProbeSymbols, MaxStrLen),
          val1 \in SeqsUpTo(ProbeSymbols, MaxMarkerLen),
          val2 \in SeqsUpTo(ProbeSymbols, MaxMarkerLen) :
         probe' = [s |-> s, val1 |-> val1, val2 |-> val2,
                   result |-> get_value_between(s, val1, val2), done |-> TRUE]
    /\ UNCHANGED <<serverUp, conn>>

SpecBetween == Init /\ [][Probe]_vars

-----------------------------------------------------------------------------
(* Vocabulary of the properties *)

\* service has been polled for the request of connection i
Begun(i) == conn[i].pc \in {"await", "ready", "sent", "closed"}
\* service has returned (or panicked) for the request of connection i
Finished(i) == conn[i].out.kind # "none"

\* The handler the routing rule names for a request: by method, number of
\* non-empty segments and first segment, with the exact path "/" for Info
Routed(req) ==
    LET segs == splitted_path(req.path)
    IN  IF req.method = "HEAD" THEN "head"
        ELSE IF req.method = "GET" /\ req.path = <<"/">> THEN "info"
        ELSE IF req.method = "GET" /\ Len(segs) = 2 /\ segs[1] = <<"search">>
            THEN "search"
        ELSE IF req.method = "GET" /\ Len(segs) = 3 /\ segs[1] = <<"lookup">>
            THEN "lookup"
        ELSE "notfound"

\* The handler that ran, read from what the task did
Observed(i) ==
    LET c == conn[i]
    IN  IF c.calls # <<>>
            THEN (IF c.calls[1].operationName = "SearchProductQueryV4"
                  THEN "search" ELSE "lookup")
        ELSE IF Contains(c.steps, "split") THEN "notfound"
        ELSE IF Contains(c.steps, "dispatch") THEN "info"
        ELSE "head"

PlainNotFound ==
    Responded(404, NoHeader, [kind |-> "text", text |-> <<"404 Not found">>])
EmptyOk == Responded(200, NoHeader, [kind |-> "text", text |-> <<>>])
ProductNotFound ==
    Responded(200, "application/json",
              [kind |-> "json",
               obj |-> [reason |-> "Product not found", success |-> FALSE]])

\* A failure response: an error-class status and a reason
Classified(out) ==
    /\ out.kind = "response"
    /\ out.status \in 500..599
    /\ out.body.kind = "json"
    /\ "reason" \in DOMAIN out.body.obj

-----------------------------------------------------------------------------
(* C1 *)

\* The tokens of an Accept header: split on ",", trimmed, parameters and
\* suffix dropped
Tokens(h) ==
    LET parts == Split(h, ",")
    IN  [k \in 1..Len(parts) |->
            FirstPiece(FirstPiece(Trim(parts[k]), ";"), "+")]

\* The representation named by the first token that is text/html or
\* application/json, "text" when there is none or no header
RECURSIVE FirstSupported(_)
FirstSupported(tokens) ==
    IF tokens = <<>> THEN "text"
    ELSE IF tokens[1] = HTML THEN "html"
    ELSE IF tokens[1] = JSON THEN "json"
    ELSE FirstSupported(Tail(tokens))

Chosen(accept) ==
    IF IsSome(accept) THEN FirstSupported(Tokens(Unwrap(accept))) ELSE "text"

\* C1 as stated: GET / and every NotFound answer in the representation of the
\* first token of the Accept header that is text/html or application/json,
\* and in plain text when the header holds neither or is absent.
NegotiationByFirstToken ==
    \A i \in Conns :
        Finished(i) /\ Observed(i) \in {"info", "notfound"}
            => /\ conn[i].out.kind = "response"
               /\ conn[i].out.body.kind = Chosen(conn[i].req.accept)

\* The same for the Accept headers that HeaderValue::to_str accepts; the
\* others end the call of service with an error and no response.
NegotiationOfTextHeaders ==
    \A i \in Conns :
        Finished(i) /\ Observed(i) \in {"info", "notfound"}
            => IF IsSome(conn[i].req.accept)
                  /\ ~to_str(Unwrap(conn[i].req.accept)).ok
               THEN conn[i].out.kind = "error"
               ELSE /\ conn[i].out.kind = "response"
                    /\ conn[i].out.body.kind = Chosen(conn[i].req.accept)

-----------------------------------------------------------------------------
(* C2 *)

-----------------------------------------------------------------------------
(* C3 *)

\* C3: a HEAD request on any path is answered 200 with an empty body, and
\* service has then dispatched nothing, negotiated nothing and called nothing.
HeadShortCircuit ==
    \A i \in Conns :
        conn[i].req.method = "HEAD" /\ conn[i].pc # "recv"
            => /\ conn[i].out = EmptyOk
               /\ conn[i].steps = <<>>
               /\ conn[i].calls = <<>>

HeadWitness ==
    \E i \in Conns :
        /\ conn[i].req = Request("HEAD", <<"/", "search", "/", "x">>, None)
        /\ conn[i].out = EmptyOk

-----------------------------------------------------------------------------
(* C4 *)

\* C4: a Lookup whose upstream text holds "product: not found" is answered
\* 200 with {"success":false,"reason":"Product not found"} and the text is
\* not parsed as JSON.
SentinelShortCircuit ==
    \A i \in Conns :
        (/\ Finished(i) /\ Observed(i) = "lookup"
         /\ conn[i].reply.transport = "ok" /\ conn[i].reply.sentinel)
            => /\ conn[i].out = ProductNotFound
               /\ ~Contains(conn[i].steps, "parse")

\* The sentinel in a text that is not JSON
SentinelWitness ==
    \E i \in Conns :
        /\ Finished(i) /\ Observed(i) = "lookup"
        /\ conn[i].reply = NotJson(TRUE)
        /\ conn[i].out = ProductNotFound

-----------------------------------------------------------------------------
(* C5 *)

\* C5 as stated: a Lookup whose upstream JSON lacks basicInfo.shopName ends
\* in a failure response with an error-class status and a reason, not in a
\* panic of the task.
MissingFieldIsClassified ==
    \A i \in Conns :
        (/\ Finished(i) /\ Observed(i) = "lookup"
         /\ conn[i].reply.transport = "ok" /\ ~conn[i].reply.sentinel
         /\ conn[i].reply.valid
         /\ IsSome(conn[i].reply.doc.components)
         /\ ~IsSome(conn[i].reply.doc.shopName))
            => Classified(conn[i].out)

-----------------------------------------------------------------------------
(* C6 *)

\* The upstream JSON is complete and the stock read from it is no number
StockUnparsable(reply) ==
    /\ reply.transport = "ok" /\ ~reply.sentinel /\ reply.valid
    /\ IsSome(reply.doc.components) /\ IsSome(reply.doc.shopName)
    /\ ~scan_components(Unwrap(reply.doc.components), ScanStart).panic
    /\ ~parse_usize(scan_components(Unwrap(reply.doc.components),
                                    ScanStart).stock).ok

\* C6 as stated: a Lookup whose stock.value does not parse as a non-negative
\* integer ends in a failure response with an error-class status and a
\* reason, never in a success response or a crash.
BadStockIsClassified ==
    \A i \in Conns :
        Finished(i) /\ Observed(i) = "lookup" /\ StockUnparsable(conn[i].reply)
            => Classified(conn[i].out)

-----------------------------------------------------------------------------
(* C7 *)

\* The outcome a request has when it is the only one served
Alone(req, reply) ==
    IF IsSome(service_begin(req).call)
    THEN service_resume(req, reply).out
    ELSE service_begin(req).out

\* A step of one task changes nothing of another connection and does not
\* stop the accept loop
IsolatedStep ==
    /\ \A i, j \in Conns :
         i # j /\ conn'[i] # conn[i] => conn'[j] = conn[j]
    /\ conn' # conn => serverUp' = serverUp

\* C7: whatever happens to the requests of other connections (an error, a
\* panic, an upstream call that never returns), a step of one task leaves
\* the other connections as they are, every request gets the outcome it has
\* when served alone, and while the process runs every request is handled up
\* to its upstream call and, once that has returned, to its end.
RequestsDoNotInterfere ==
    /\ [][IsolatedStep]_vars
    /\ [](\A i \in Conns :
            Finished(i) => conn[i].out = Alone(conn[i].req, conn[i].reply))
    /\ \A i \in Conns :
         (conn[i].pc \in {"recv", "ready"})
            ~> (conn[i].pc \notin {"recv", "ready"} \/ ~serverUp)

\* The request of one connection has ended in a panic or an error, and the
\* request of another connection, which called the upstream, was answered
InterferenceWitness ==
    \E i, j \in Conns :
        /\ i # j
        /\ conn[i].out.kind \in {"panic", "error"}
        /\ conn[j].pc = "sent"
        /\ conn[j].calls # <<>>
        /\ conn[j].out.status = 200

-----------------------------------------------------------------------------
(* C8 *)

\* C8: a request issues at most one upstream call: exactly one once Search
\* or Lookup has begun, also after the call or the transformation failed,
\* and none for HEAD, Info and NotFound.
OneUpstreamCall ==
    \A i \in Conns :
        /\ Len(conn[i].calls) <= 1
        /\ Begun(i) =>
            (Len(conn[i].calls) = 1
                <=> Routed(conn[i].req) \in {"search", "lookup"})

\* The upstream call failed and the request ended with that one call
NoRetryWitness ==
    \E i \in Conns :
        /\ Finished(i)
        /\ conn[i].reply = TransportError
        /\ conn[i].out.kind = "error"
        /\ Len(conn[i].calls) = 1

-----------------------------------------------------------------------------
(* C9 *)

\* The first position of m in s at or after position from, 0 when none
FirstFrom(s, m, from) ==
    LET hits == {j \in from..(Len(s) + 1) : OccursAt(s, m, j)}
    IN  IF hits = {} THEN 0 ELSE CHOOSE j \in hits : \A k \in hits : j <= k

\* What lies between the first m1 of s and the first m2 of s
BetweenFirsts(s, m1, m2) ==
    LET i == FirstFrom(s, m1, 1)
        j == FirstFrom(s, m2, 1)
        sub == SubSeq(s, i + Len(m1), j - 1)
    IN  IF i = 0 \/ j = 0 \/ sub = <<>> THEN Err ELSE Ok(sub)

\* What lies between the first m1 of s and the first m2 that follows it
BetweenInOrder(s, m1, m2) ==
    LET i == FirstFrom(s, m1, 1)
        j == FirstFrom(s, m2, i + Len(m1))
        sub == SubSeq(s, i + Len(m1), j - 1)
    IN  IF i = 0 \/ j = 0 \/ sub = <<>> THEN Err ELSE Ok(sub)

\* C9 as stated: get_value_between returns what lies strictly between the
\* first occurrence of m1 and the first occurrence of m2, and an error when
\* a marker is missing or the result is empty.
BetweenFirstOccurrences ==
    probe.done =>
        probe.result = BetweenFirsts(probe.s, probe.val1, probe.val2)

\* C9 amended: get_value_between returns what lies strictly between the
\* first occurrence of m1 and the first occurrence of m2 after that m1, and
\* an error when m1 is missing, m2 is missing after it or the result is
\* empty; the product URLs .../shopA/111?extra=1 and .../shopB/222?x=2 give
\* the ids "111" and "222".
BetweenMarkersInOrder ==
    /\ probe.done =>
         probe.result = BetweenInOrder(probe.s, probe.val1, probe.val2)
    /\ product_id(ProductA) = Ok(<<"111">>)
    /\ product_id(ProductB) = Ok(<<"222">>)

\* m2 also occurs before m1: the occurrence after m1 is the one that counts
BetweenWitness ==
    /\ probe.done
    /\ probe.s = <<"?", "/", "a", "?">>
    /\ probe.val1 = <<"/">>
    /\ probe.val2 = <<"?">>
    /\ probe.result = Ok(<<"a">>)

-----------------------------------------------------------------------------
(* C10 *)

\* C10: a Search success response holds one record per upstream product, in
\* upstream order, each with a non-empty id; when the id of any product
\* cannot be extracted there is no success response.
SearchAllOrNothing ==
    \A i \in Conns :
        (/\ Finished(i) /\ Observed(i) = "search"
         /\ conn[i].reply.transport = "ok" /\ conn[i].reply.valid
         /\ IsSome(conn[i].reply.doc.products))
            => LET products == Unwrap(conn[i].reply.doc.products)
                   results == conn[i].out.body.obj.results
               IN  /\ conn[i].out.kind = "response"
                        => /\ conn[i].out.body.obj.success
                           /\ Len(results) = Len(products)
                           /\ \A k \in 1..Len(products) :
                                /\ Some(results[k].url) = products[k].url
                                /\ Some(results[k].name) = products[k].name
                                /\ results[k].id # <<>>
                   /\ (\E k \in 1..Len(products) :
                            /\ ProductFieldsPresent(products[k])
                            /\ ~product_id(products[k]).ok)
                        => conn[i].out.kind # "response"

\* Two products, two records, the ids "111" and "222" in upstream order
SearchWitness ==
    \E i \in Conns :
        /\ Finished(i) /\ Observed(i) = "search"
        /\ conn[i].out.kind = "response"
        /\ Len(conn[i].out.body.obj.results) = 2
        /\ conn[i].out.body.obj.results[1].id = <<"111">>
        /\ conn[i].out.body.obj.results[2].id = <<"222">>

-----------------------------------------------------------------------------
(* C11 *)

\* Two requests to the same data endpoint that saw the same upstream reply
SameButAccept(i, j) ==
    /\ Finished(i) /\ Finished(j)
    /\ Routed(conn[i].req) \in {"search", "lookup"}
    /\ conn[i].req.method = conn[j].req.method
    /\ conn[i].req.path = conn[j].req.path
    /\ conn[i].reply = conn[j].reply

\* C11: a request to /search/<query> or /lookup/<seller>/<product> ends only
\* after its upstream call has returned, whatever its Accept header; two
\* such requests that differ only in their Accept header and saw the same
\* upstream response end alike, and when they are answered the status,
\* Content-Type (application/json) and body are the same.
DataIgnoresAccept ==
    /\ \A i \in Conns :
         Finished(i) /\ Routed(conn[i].req) \in {"search", "lookup"}
            => /\ conn[i].reply # NoReply
               /\ ~Contains(conn[i].steps, "negotiate")
               /\ conn[i].out.kind = "response"
                    => conn[i].out.ctype = "application/json"
    /\ \A i, j \in Conns : SameButAccept(i, j) => conn[i].out = conn[j].out

\* One request without Accept header and one with an Accept header that
\* cannot be decoded, both answered 200 from the same upstream response
DataAcceptWitness ==
    \E i, j \in Conns :
        /\ SameButAccept(i, j)
        /\ conn[i].req.accept = None
        /\ conn[j].req.accept = Some(<<NonAscii>>)
        /\ conn[i].out.kind = "response" /\ conn[i].out.status = 200
        /\ conn[j].out.kind = "response" /\ conn[j].out.body.obj.success

-----------------------------------------------------------------------------
(* C12 *)

\* A token in lower case
Lowercase(token) ==
    [k \in 1..Len(token) |->
        IF token[k] = "Application/JSON" THEN "application/json" ELSE token[k]]

\* The tokens of an Accept header, each trimmed, cut at the first ";", cut
\* at the first "+" and put in lower case
NormalizedTokens(h) ==
    LET tokens == Tokens(h)
    IN  [k \in 1..Len(tokens) |-> Lowercase(tokens[k])]

\* C12: on the negotiated endpoints an Accept header selects the
\* representation of its first token that, once trimmed, cut at the first
\* ";", cut at the first "+" and put in lower case, is text/html or
\* application/json; so Application/JSON selects JSON.
NegotiationNormalizesCase ==
    \A i \in Conns :
        (/\ Finished(i) /\ Observed(i) \in {"info", "notfound"}
         /\ IsSome(conn[i].req.accept)
         /\ to_str(Unwrap(conn[i].req.accept)).ok)
            => /\ conn[i].out.kind = "response"
               /\ conn[i].out.body.kind
                    = FirstSupported(NormalizedTokens(Unwrap(conn[i].req.accept)))

\* Without the lower case the rest of the normalization is what the code
\* does: trimmed, cut at the first ";" and at the first "+"
NegotiationNormalizesTokens ==
    \A i \in Conns :
        (/\ Finished(i) /\ Observed(i) \in {"info", "notfound"}
         /\ IsSome(conn[i].req.accept)
         /\ to_str(Unwrap(conn[i].req.accept)).ok)
            => /\ conn[i].out.kind = "response"
               /\ conn[i].out.body.kind
                    = FirstSupported(Tokens(Unwrap(conn[i].req.accept)))

-----------------------------------------------------------------------------
(* C13 *)

\* The components of an upstream document, none when there is no array
ComponentsOf(doc) ==
    IF IsSome(doc.components) THEN Unwrap(doc.components) ELSE <<>>

\* The greatest element of a non-empty set of numbers
Greatest(S) == CHOOSE k \in S : \A l \in S : l <= k

\* The positions of the components named name
Named(cs, name) == {k \in 1..Len(cs) : cs[k].name = Some(name)}

\* The content entries of a component, none when there is no array
ContentsOf(c) == IF IsSome(c.dcontent) THEN Unwrap(c.dcontent) ELSE <<>>

\* The "Deskripsi" entries of the product_detail components, each as
\* <<position of the component, position of the entry>>
DeskripsiEntries(cs) ==
    UNION {{<<k, l>> : l \in {l \in 1..Len(ContentsOf(cs[k])) :
                                ContentsOf(cs[k])[l].title = Some("Deskripsi")}} :
            k \in Named(cs, "product_detail")}

\* The last of them in the order of the document
LastEntry(E) ==
    CHOOSE e \in E :
        \A f \in E : f[1] < e[1] \/ (f[1] = e[1] /\ f[2] <= e[2])

\* The four scanned fields of a success response are those of the last
\* product_content component and of the last "Deskripsi" entry, and the
\* defaults when there is none
FieldsFromTheirSource(cs, obj) ==
    /\ IF Named(cs, "product_content") = {}
       THEN obj.title = "" /\ obj.price = 0 /\ obj.stock = 0
       ELSE LET c == cs[Greatest(Named(cs, "product_content"))]
            IN  /\ Some(obj.title) = c.dname
                /\ Some(obj.price) = c.dprice
                /\ Ok(obj.stock) = parse_usize(Unwrap(c.dstock))
    /\ IF DeskripsiEntries(cs) = {}
       THEN obj.description = ""
       ELSE LET e == LastEntry(DeskripsiEntries(cs))
            IN  Some(obj.description) = ContentsOf(cs[e[1]])[e[2]].subtitle

\* A Lookup that parsed upstream JSON holding the basicInfo fields
ScannedLookup(i) ==
    /\ Finished(i) /\ Observed(i) = "lookup"
    /\ conn[i].reply.transport = "ok" /\ ~conn[i].reply.sentinel
    /\ conn[i].reply.valid
    /\ IsSome(conn[i].reply.doc.shopName) /\ IsSome(conn[i].reply.doc.url)
    /\ IsSome(conn[i].reply.doc.createdAt)

Success(out) ==
    /\ out.kind = "response" /\ out.status = 200
    /\ out.body.kind = "json" /\ out.body.obj.success

\* C13 as stated: in a Lookup whose upstream JSON has the basicInfo fields,
\* title, price and stock come only from a product_content component and
\* description only from the "Deskripsi" entry of a product_detail
\* component, and when there is no product_content component or no
\* "Deskripsi" entry the response is still a success, with the defaults
\* "", 0, 0 and "".
ScanDefaultsAreSuccess ==
    \A i \in Conns :
        ScannedLookup(i)
            => LET cs == ComponentsOf(conn[i].reply.doc)
               IN  /\ Success(conn[i].out)
                        => FieldsFromTheirSource(cs, conn[i].out.body.obj)
                   /\ (Named(cs, "product_content") = {}
                            \/ DeskripsiEntries(cs) = {})
                        => Success(conn[i].out)

\* What the code does: every success response has its fields from their
\* source or at their defaults, and a request that is not answered stopped
\* at an unwrap on None or at the parse of the stock
ScanOfAnsweredLookups ==
    \A i \in Conns :
        ScannedLookup(i)
            => LET cs == ComponentsOf(conn[i].reply.doc)
               IN  /\ conn[i].out.kind \in {"response", "panic", "error"}
                   /\ conn[i].out.kind = "response"
                        => /\ Success(conn[i].out)
                           /\ FieldsFromTheirSource(cs, conn[i].out.body.obj)
                   /\ conn[i].out.kind = "panic"
                        => conn[i].out.cause = "unwrap on None"
                   /\ conn[i].out.kind = "error"
                        => conn[i].out.cause = "ParseIntError"

=============================================================================
